---- MODULE Spec2Model ----
(***************************************************************************)
(* Remindly: appointment persistence, synchronisation and reminder         *)
(* dispatch.  Two deployments of the repository are modelled:              *)
(*   "static" - the browser App backed by localStorage and an optional     *)
(*              GitHub file (App + services/storage.ts);                   *)
(*   "server" - the Express/SQLite server and its route handlers.          *)
(* A behaviour is a behaviour of one of the two, chosen in Init.           *)
(*                                                                         *)
(* Spec     : the static App with the remote store disabled, and the       *)
(*            server.                                                      *)
(* SyncSpec : the static App of a session whose saved settings enable the  *)
(*            remote store.                                                *)
(* FairSpec : Spec with the fairness the runtime gives (timers fire).      *)
(* HistSpec : Spec with the history of deletions recorded.                 *)
(* TextSpec : sessions of the static App, with or without the remote       *)
(*            store, that store names outside ASCII.                       *)
(* LocalSpec: a first session of the static App without the remote store.  *)
(* FormSpec : creation and deletion with every form value and request      *)
(*            body, in both deployments.                                   *)
(* StoreSpec: LocalSpec with a local store that can be cleared or garbled. *)
(* AbortSpec: the server, with the aborted webhook calls recorded and      *)
(*            answered late.                                               *)
(* WriteSpec: a remote-mode session that no other session writes to, with  *)
(*            the write issued last and its outcome recorded.              *)
(* SwitchSpec: a first session in which the user enables the remote store. *)
(* ToggleSpec: a first session in which the user switches the remote store *)
(*            on and off and triggers reminders.                           *)
(* DispatchSpec: the static App, with or without the remote store, in      *)
(*            which reminders are triggered.                               *)
(* TimedSpec: a remote-mode session in which time passes (fair clock).     *)
(***************************************************************************)
EXTENDS Integers, Sequences, FiniteSets, TLC

\* ------------------------------------------------------------------ bounds
MaxAppts == 2
MaxTasks == 2
MaxClock == MaxAppts

\* --------------------------------------------------------------- constants
Deployments == {"static", "server"}
Clock       == 1..MaxClock
Slots       == 1..MaxTasks
\* the id of a record written by another session (a time before this one)
OtherId     == 0
Ids         == Clock \cup {OtherId}

WebhookUrl  == "https://n8n/webhook"
Token       == "ghp_tok"
Repo        == "owner/repo"

\* HTTP statuses a webhook may answer with
WebhookStatuses == {204, 500}

\* values the user may enter in the New Appointment form
FormInputs ==
  { [client_name |-> "Ana", phone_number |-> "+1555",
     appointment_date |-> "2025-03-01", appointment_time |-> "09:00"] }

\* form values whose client_name has characters outside ASCII
UnicodeInputs ==
  { [client_name |-> n, phone_number |-> "+1555",
     appointment_date |-> "2025-03-01", appointment_time |-> "09:00"] :
    n \in {"Zoe", "Li"} }

\* form values and request bodies with another date, with an empty
\* client_name, and (a request body only) with fields of its own for id and
\* status
LaterInput ==
  [client_name |-> "Bob", phone_number |-> "+1777",
   appointment_date |-> "2025-03-02", appointment_time |-> "09:00"]
NamelessInput ==
  [client_name |-> "", phone_number |-> "+1555",
   appointment_date |-> "2025-03-01", appointment_time |-> "09:00"]
FormValues == FormInputs \cup {LaterInput, NamelessInput}
OverBody ==
  [client_name |-> "Eve", phone_number |-> "+1999",
   appointment_date |-> "2025-03-01", appointment_time |-> "09:00",
   id |-> 0, status |-> "sent"]
Bodies == FormValues \cup {OverBody}

DEFAULT_SETTINGS ==
  [n8n_webhook_url |-> "", use_github |-> FALSE,
   github_token |-> "", github_repo |-> ""]

VARIABLES
  deployment,     \* which program this behaviour is of
  \* ---- static App (React state, one session)
  appointments,   \* useState<Appointment[]>
  settings,       \* useState<AppSettings>
  isLoading,      \* useState(true)
  isSaving,       \* useState(false)
  triggeringIds,  \* useState<Set<number>>
  tasks,          \* suspended async handlers, each with its closure
  now,            \* Date.now()
  \* ---- stores of the static App
  localStorage,   \* the browser's localStorage (JSON text per key)
  remoteFile,     \* the GitHub file: base64 content, identified by blob sha
  \* ---- server
  db,             \* table appointments, rows in rowid order
  dbSeq,          \* sqlite_sequence of the AUTOINCREMENT id
  dbUrl,          \* table settings, key n8n_webhook_url
  requests,       \* suspended /api/trigger-reminder handlers
  \* ---- observation
  io,             \* the step just taken: the answer consumed, the report made
  deleted,        \* history (ids, abandoned): the ids handleDelete has persisted a snapshot
                  \* without and no later create has assigned again (ids),
                  \* where the specification records it
  lastRead        \* the remote file against this session's last successful read:
                  \* "none" (no read yet), "current", or "stale" (another
                  \* session has written the file since)

appVars    == <<appointments, settings, isLoading, isSaving, triggeringIds,
               tasks, now, localStorage, remoteFile>>
serverVars == <<db, dbSeq, dbUrl, requests>>
vars       == <<deployment, appVars, serverVars, io, lastRead, deleted>>

\* ----------------------------------------------------------- pure helpers
Range(s) == { s[i] : i \in 1..Len(s) }

RECURSIVE SeqMapToggle(_, _, _)
\* variant: a matching record that already has the status is set back
SeqMapToggle(s, id, st) ==
  IF s = << >> THEN << >>
  ELSE << IF Head(s).id = id
          THEN [Head(s) EXCEPT !.status = IF Head(s).status = st
                                          THEN "pending" ELSE st]
          ELSE Head(s) >>
       \o SeqMapToggle(Tail(s), id, st)

RECURSIVE SeqMap(_, _, _)
\* appointments.map(a => a.id === id ? f(a) : a), f = status := st
SeqMap(s, id, st) ==
  IF s = << >> THEN << >>
  ELSE << IF Head(s).id = id THEN [Head(s) EXCEPT !.status = st] ELSE Head(s) >>
       \o SeqMap(Tail(s), id, st)

RECURSIVE SeqFilterOut(_, _)
\* appointments.filter(a => a.id !== id)
SeqFilterOut(s, id) ==
  IF s = << >> THEN << >>
  ELSE (IF Head(s).id # id THEN << Head(s) >> ELSE << >>)
       \o SeqFilterOut(Tail(s), id)

\* the place of a date or time string in the order of plain string
\* comparison, among the strings used
TextRank(str) ==
  CASE str = "09:00" -> 1
    [] str = "10:00" -> 2
    [] str = "2025-03-01" -> 3
    [] str = "2025-03-02" -> 4

\* (appointment_date, appointment_time) of a comes before that of b, or equals it
NotAfter(a, b) ==
  \/ TextRank(a.appointment_date) < TextRank(b.appointment_date)
  \/ /\ a.appointment_date = b.appointment_date
     /\ TextRank(a.appointment_time) <= TextRank(b.appointment_time)

RECURSIVE InsertOrdered(_, _)
InsertOrdered(row, rows) ==
  IF rows = << >> THEN << row >>
  ELSE IF NotAfter(Head(rows), row)
       THEN << Head(rows) >> \o InsertOrdered(row, Tail(rows))
       ELSE << row >> \o rows

RECURSIVE OrderByDateTime(_)
\* ORDER BY appointment_date ASC, appointment_time ASC (ties in rowid order)
OrderByDateTime(rows) ==
  IF rows = << >> THEN << >>
  ELSE InsertOrdered(rows[Len(rows)], OrderByDateTime(SubSeq(rows, 1, Len(rows) - 1)))

HasId(s, id)      == \E i \in 1..Len(s) : s[i].id = id
SentIn(s, id)     == \E i \in 1..Len(s) : s[i].id = id /\ s[i].status = "sent"
PendingIn(s, id)  == \E i \in 1..Len(s) : s[i].id = id /\ s[i].status = "pending"

\* appointments.find(a => a.id === id): the first match
FindIndex(s, id) ==
  IF HasId(s, id)
  THEN CHOOSE i \in 1..Len(s) : s[i].id = id /\ \A j \in 1..(i-1) : s[j].id # id
  ELSE 0

\* variant: the map returns every record as it was
MarkSentNoChange(appts, id) == appts
\* the sent transition of handleTrigger
MarkSent(appts, id) == SeqMap(appts, id, "sent")

\* variant: any answer of the webhook counts as a success
ResOkAnyStatus(status) == status # 0
\* res.ok / response.ok
ResOk(status) == status \in 200..299

\* use_github && github_token && github_repo
RemoteEnabled(s) == s.use_github /\ s.github_token # "" /\ s.github_repo # ""

\* ------------------------------------------------------ JSON text (tuples)
\* JSON.stringify of an appointment list: one tuple of field values per record
ApptToJson(a) ==
  << a.id, a.client_name, a.phone_number, a.appointment_date,
     a.appointment_time, a.status >>
JsonToAppt(t) ==
  [id |-> t[1], client_name |-> t[2], phone_number |-> t[3],
   appointment_date |-> t[4], appointment_time |-> t[5], status |-> t[6]]
StringifyAppts(list) == [i \in 1..Len(list) |-> ApptToJson(list[i])]
ParseAppts(text)     == [i \in 1..Len(text) |-> JsonToAppt(text[i])]

StringifySettings(s) ==
  << s.n8n_webhook_url, s.use_github, s.github_token, s.github_repo >>

\* an absent localStorage item / a missing remote file
Absent == [present |-> FALSE, text |-> << >>]
Stored(text) == [present |-> TRUE, text |-> text]

\* variant: an item holding the text of an empty list is taken as missing
LocalLoadEmptyAsMissing(item, defaultValue) ==
  IF ~item.present \/ item.text = << >> THEN defaultValue
  ELSE ParseAppts(item.text)

\* a stored text that JSON.parse rejects (the empty string is one: the code
\* returns the default for it before parsing): its one element is not the
\* tuple of a record
Garbled == << << "{" >> >>

\* JSON.parse(text) returns rather than throws
JsonParses(text) == \A i \in 1..Len(text) : Len(text[i]) = 6

\* variant: the catch branch returns an empty list, not the default it was given
LocalLoadEmptyOnError(item, defaultValue) ==
  IF ~item.present THEN defaultValue
  ELSE IF ~JsonParses(item.text) THEN << >>
  ELSE ParseAppts(item.text)

\* LocalStorageService.load(key, defaultValue) of a record set: the default
\* when getItem returns null or JSON.parse throws, else what JSON.parse returns
LocalLoad(item, defaultValue) ==
  IF ~item.present THEN defaultValue
  ELSE IF ~JsonParses(item.text) THEN defaultValue
  ELSE ParseAppts(item.text)

\* LocalStorageService.load('remindly_appointments', [])
LocalLoadAppts(ls) == LocalLoad(ls.remindly_appointments, << >>)

\* LocalStorageService.save('remindly_appointments', data)
LocalSaveAppts(ls, data) ==
  [ls EXCEPT !.remindly_appointments = Stored(StringifyAppts(data))]

\* LocalStorageService.save('remindly_settings', settings)
LocalSaveSettings(ls, s) ==
  [ls EXCEPT !.remindly_settings = Stored(StringifySettings(s))]

\* --------------------------------------------------- remote text encoding
\* the UTF-16 code units of the names used: Ana, Bob, Zoe with e-diaeresis
\* (U+00EB, in Latin-1), Li as the single character U+674E (outside Latin-1)
CharCodes(name) ==
  CASE name = "Ana" -> << 65, 110, 97 >>
    [] name = "Bob" -> << 66, 111, 98 >>
    [] name = "Zoe" -> << 90, 111, 235 >>
    [] name = "Li"  -> << 26446 >>

\* btoa accepts a string whose code units are all in 0..255 (JSON.stringify
\* leaves the characters of client_name as they are; the other fields and
\* the JSON punctuation are ASCII)
IsLatin1(text) ==
  \A i \in 1..Len(text) :
    \A k \in 1..Len(CharCodes(text[i][2])) : CharCodes(text[i][2])[k] <= 255

\* btoa(JSON.stringify(data, null, 2)): the base64 text of the bytes, or an
\* InvalidCharacterError (ok = FALSE) outside Latin-1
Btoa(text) ==
  [ok |-> IsLatin1(text),
   b64 |-> IF IsLatin1(text) THEN << "base64", text >> ELSE << >>]
\* atob(file.content): the string whose code units are the bytes encoded
Atob(b64) == b64[2]

\* the sha GitHub reports for a file is the git blob sha of its content
BlobSha(file) == file

\* GitHub contents API, PUT: accepted when the sha sent names the current blob,
\* or when none is sent and the file does not exist (else 409 / 422)
PutAccepted(file, sha) == sha = BlobSha(file)

\* variant: a 404 is thrown like any other non-ok status
GetFileThrowOn404(file, answer) ==
  IF answer # "ok" \/ ~file.present THEN [kind |-> "throw", file |-> Absent]
  ELSE [kind |-> "file", file |-> file]

\* getFile() when the GET is answered: "ok" is a 200, or a 404 when the file
\* does not exist; any other answer is a non-ok status or a rejected fetch.
\* It returns null on 404, throws on the other failures, and else returns the
\* file (content and sha)
GetFile(file, answer) ==
  IF answer # "ok" THEN [kind |-> "throw", file |-> Absent]
  ELSE IF ~file.present THEN [kind |-> "null", file |-> Absent]
  ELSE [kind |-> "file", file |-> file]

\* existingFile?.sha: no sha when getFile returned null
ShaOf(got) == IF got.kind = "file" THEN BlobSha(got.file) ELSE Absent


\* ------------------------------------------------------------------ tasks
IdleTask ==
  [pc |-> "idle", op |-> "none", id |-> 0, appts |-> << >>,
   remote |-> FALSE, data |-> << >>, sha |-> Absent, calls |-> 0, puts |-> 0]

\* the record of a step that starts or ends a handler or consumes an answer of
\* the environment: the handler `op` (for record `id`), the answer (answer,
\* status; stale: the sha a PUT carried was not the current one) and, when the
\* handler ended in this step, what it reported: the alert text or the HTTP
\* reply (kind, the status code it carries, http for the server's reply
\* status), the console.error line (log), the requests the invocation issued
\* in all (calls to the webhook, puts to GitHub), and whether the step changed
\* a record store
NoIo ==
  [op |-> "none", id |-> 0, answer |-> "none", status |-> 0, stale |-> FALSE,
   kind |-> "none", code |-> 0, http |-> 0, calls |-> 0, puts |-> 0,
   log |-> "none", changed |-> FALSE]

Stores == <<appointments, localStorage.remindly_appointments, remoteFile, db>>
Observe(rec) == [rec EXCEPT !.changed = (Stores' # Stores)]

FreeSlot(t) ==
  /\ tasks[t].pc = "idle"
  /\ \A u \in Slots : u < t => tasks[u].pc # "idle"

OtherAppt ==
  [id |-> OtherId, client_name |-> "Bob", phone_number |-> "+1777",
   appointment_date |-> "2025-03-02", appointment_time |-> "10:00",
   status |-> "pending"]

Static == deployment = "static"
\* the App renders only a spinner while isLoading (no button can be clicked)
UiReady == Static /\ ~isLoading

\* ------------------------------------------------------------ environment
\* the clock behind Date.now() advances
Tick ==
  /\ Static
  /\ now < MaxClock
  /\ now' = now + 1
  /\ UNCHANGED <<deployment, appointments, settings, isLoading, isSaving,
                 triggeringIds, tasks, localStorage, remoteFile, serverVars,
                 lastRead, deleted>>
  /\ io' = NoIo

\* another session (another tab or device) replaces the remote file
OtherWrite ==
  /\ Static
  /\ remoteFile # Stored(Btoa(StringifyAppts(<< OtherAppt >>)).b64)
  /\ remoteFile' = Stored(Btoa(StringifyAppts(<< OtherAppt >>)).b64)
  /\ lastRead' = IF lastRead = "current" THEN "stale" ELSE lastRead
  /\ UNCHANGED <<deleted, deployment, appointments, settings, isLoading, isSaving,
                 triggeringIds, tasks, now, localStorage, serverVars>>
  /\ io' = NoIo

\* ----------------------------------------------------------- persistData
\* variant: the new record set goes to the remote store only
PersistDataRemoteOnly(t, op, id, newAppointments, remote, calls) ==
  /\ appointments' = newAppointments
  /\ localStorage' = localStorage
  /\ IF remote
     THEN /\ isSaving' = TRUE
          /\ tasks' = [tasks EXCEPT ![t] =
                 [pc |-> "getFile", op |-> op,
                  id |-> IF op = "trigger" THEN id ELSE 0, appts |-> << >>,
                  remote |-> remote, data |-> newAppointments, sha |-> Absent,
                  calls |-> calls, puts |-> 0]]
          /\ UNCHANGED triggeringIds
     ELSE /\ isSaving' = FALSE
          /\ tasks' = [tasks EXCEPT ![t] = IdleTask]
          /\ triggeringIds' = IF op = "trigger" THEN triggeringIds \ {id}
                              ELSE triggeringIds

\* history: persistData in slot t started gh.saveData(data), the write issued
\* last from now on
Issue(h, t, remote, data) ==
  IF h.writes /\ remote
  THEN [h EXCEPT !.latest = t, !.data = data, !.done = "none"]
  ELSE h

\* history: the saveData of slot t returned (ok) or threw
Settle(h, t, ok) ==
  IF h.writes /\ h.latest = t /\ h.done = "none"
  THEN [h EXCEPT !.done = IF ok THEN "ok" ELSE "failed"]
  ELSE h

\* the slot a handler that starts now runs in
NextSlot == CHOOSE t \in Slots : FreeSlot(t)

\* the synchronous part of persistData(newAppointments), run by handler `op`
\* in slot t with the settings of its closure: setAppointments, local save, and
\* either the start of gh.saveData (its getFile request) or the end of the call
PersistData(t, op, id, newAppointments, remote, calls) ==
  /\ appointments' = newAppointments
  /\ localStorage' = LocalSaveAppts(localStorage, newAppointments)
  /\ IF remote
     THEN /\ isSaving' = TRUE
          /\ tasks' = [tasks EXCEPT ![t] =
                 [pc |-> "getFile", op |-> op,
                  id |-> IF op = "trigger" THEN id ELSE 0, appts |-> << >>,
                  remote |-> remote, data |-> newAppointments, sha |-> Absent,
                  calls |-> calls, puts |-> 0]]
          /\ UNCHANGED triggeringIds
     ELSE /\ isSaving' = FALSE
          /\ tasks' = [tasks EXCEPT ![t] = IdleTask]
          /\ triggeringIds' = IF op = "trigger" THEN triggeringIds \ {id}
                              ELSE triggeringIds

\* the end of a handler whose persistData has returned (saveData resolved, or
\* threw and was caught): the finally-blocks of persistData and handleTrigger
FinishPersist(t) ==
  /\ isSaving' = FALSE
  /\ triggeringIds' = IF tasks[t].op = "trigger"
                      THEN triggeringIds \ {tasks[t].id} ELSE triggeringIds
  /\ tasks' = [tasks EXCEPT ![t] = IdleTask]

\* variant: persistData lets the error of saveData escape to its caller
FinishedRethrow(t, answer, log) ==
  [NoIo EXCEPT !.op = tasks[t].op, !.id = tasks[t].id, !.answer = answer,
               !.kind = IF log = "none" THEN "ok" ELSE "error", !.log = log,
               !.calls = tasks[t].calls, !.puts = tasks[t].puts]

\* the record of such a step
Finished(t, answer, log) ==
  [NoIo EXCEPT !.op = tasks[t].op, !.id = tasks[t].id, !.answer = answer,
               !.kind = "ok", !.log = log, !.calls = tasks[t].calls,
               !.puts = tasks[t].puts]

\* gh.saveData: the getFile request answers.  "ok" is a 200 or a 404, "error"
\* a non-ok, non-404 status or a rejected fetch.  After an ok answer saveData
\* encodes the data and issues the PUT with the sha it has just read
GetFileRespond(t, answer) ==
  /\ Static
  /\ tasks[t].pc = "getFile"
  /\ IF GetFile(remoteFile, answer).kind # "throw"
        /\ Btoa(StringifyAppts(tasks[t].data)).ok
     THEN /\ tasks' = [tasks EXCEPT ![t].pc = "put",
                                    ![t].sha = ShaOf(GetFile(remoteFile, answer)),
                                    ![t].puts = tasks[t].puts + 1]
          /\ UNCHANGED <<isSaving, triggeringIds>>
     ELSE FinishPersist(t)
  /\ deleted' = IF GetFile(remoteFile, answer).kind # "throw"
                   /\ Btoa(StringifyAppts(tasks[t].data)).ok
                THEN deleted ELSE Settle(deleted, t, FALSE)
  /\ UNCHANGED <<deployment, appointments, settings, isLoading, now,
                 localStorage, remoteFile, serverVars, lastRead>>
  /\ io' = Observe(IF GetFile(remoteFile, answer).kind # "throw"
                      /\ Btoa(StringifyAppts(tasks[t].data)).ok
                   THEN NoIo
                   ELSE Finished(t, answer, "Error persisting data"))

\* variant: a rejected PUT is retried with a freshly read sha, and is applied
PutFailedRetry(t) ==
  /\ FinishPersist(t)
  /\ remoteFile' = Stored(Btoa(StringifyAppts(tasks[t].data)).b64)

\* saveData when the PUT is answered with a non-ok status, or its fetch
\* rejects: it throws, once, and persistData logs the error
PutFailed(t) ==
  /\ FinishPersist(t)
  /\ UNCHANGED remoteFile

\* variant: after a PUT that was not accepted saveData starts over with a new
\* getFile
PutRespondRetry(t, answer) ==
  /\ Static
  /\ tasks[t].pc = "put"
  /\ IF answer = "ok" /\ PutAccepted(remoteFile, tasks[t].sha)
     THEN /\ remoteFile' = Stored(Btoa(StringifyAppts(tasks[t].data)).b64)
          /\ FinishPersist(t)
     ELSE /\ tasks' = [tasks EXCEPT ![t].pc = "getFile"]
          /\ UNCHANGED <<remoteFile, isSaving, triggeringIds>>
  /\ deleted' = deleted
  /\ UNCHANGED <<deployment, appointments, settings, isLoading, now,
                 localStorage, serverVars, lastRead>>
  /\ io' = Observe(
       IF answer = "ok" /\ PutAccepted(remoteFile, tasks[t].sha)
       THEN Finished(t, "ok", "none")
       ELSE NoIo)

\* gh.saveData: the PUT answers.  "ok": GitHub applies its sha check and
\* answers 200/201, or 409/422 on a mismatch ("conflict"); "error": 401, 403,
\* 5xx or a rejected fetch, nothing is written
PutRespond(t, answer) ==
  /\ Static
  /\ tasks[t].pc = "put"
  /\ IF answer = "ok" /\ PutAccepted(remoteFile, tasks[t].sha)
     THEN /\ remoteFile' = Stored(Btoa(StringifyAppts(tasks[t].data)).b64)
          /\ FinishPersist(t)
     ELSE PutFailed(t)
  /\ deleted' = Settle(deleted, t, answer = "ok" /\ PutAccepted(remoteFile, tasks[t].sha))
  /\ UNCHANGED <<deployment, appointments, settings, isLoading, now,
                 localStorage, serverVars, lastRead>>
  /\ io' = Observe(
       [ (IF answer = "ok" /\ PutAccepted(remoteFile, tasks[t].sha)
          THEN Finished(t, "ok", "none")
          ELSE Finished(t, IF answer = "ok" THEN "conflict" ELSE answer,
                        "Error persisting data"))
         EXCEPT !.stale = ~PutAccepted(remoteFile, tasks[t].sha) ])

\* --------------------------------------------------------------- handlers
\* the record handleAddAppointment builds: id = Date.now(), status pending
\* variant: a status or id the caller supplied wins over the assigned one
NewAppointmentFromBody(f, id) ==
  [id |-> IF "id" \in DOMAIN f THEN f.id ELSE id,
   client_name |-> f.client_name, phone_number |-> f.phone_number,
   appointment_date |-> f.appointment_date,
   appointment_time |-> f.appointment_time,
   status |-> IF "status" \in DOMAIN f THEN f.status ELSE "pending"]

\* the four inputs of the New Appointment form are `required`: the browser
\* submits the form, and so calls handleAddAppointment, only when none is empty
Required(f) ==
  /\ f.client_name # ""
  /\ f.phone_number # ""
  /\ f.appointment_date # ""
  /\ f.appointment_time # ""

NewAppointment(f, id) ==
  [id |-> id, client_name |-> f.client_name, phone_number |-> f.phone_number,
   appointment_date |-> f.appointment_date,
   appointment_time |-> f.appointment_time, status |-> "pending"]

\* the record of a step that starts handler `op` and, with the remote store
\* disabled, also ends it
Started(op, id, remote) ==
  [NoIo EXCEPT !.op = op, !.id = id, !.kind = IF remote THEN "none" ELSE "ok"]

HandleAddAppointment(f) ==
  /\ UiReady
  /\ Required(f)
  /\ Len(appointments) < MaxAppts
  /\ \E t \in Slots :
       /\ FreeSlot(t)
       /\ PersistData(t, "add", now, Append(appointments, NewAppointment(f, now)),
                      RemoteEnabled(settings), 0)
  /\ deleted' = Issue([deleted EXCEPT !.ids = deleted.ids \ {now}], NextSlot,
                      RemoteEnabled(settings),
                      Append(appointments, NewAppointment(f, now)))
  /\ UNCHANGED <<deployment, settings, isLoading, now, remoteFile, serverVars,
                 lastRead>>
  /\ io' = Observe(Started("add", now, RemoteEnabled(settings)))

\* handleDelete(id), from the delete button of a listed record
HandleDelete(id) ==
  /\ UiReady
  /\ HasId(appointments, id)
  /\ \E t \in Slots :
       /\ FreeSlot(t)
       /\ PersistData(t, "delete", id, SeqFilterOut(appointments, id),
                      RemoteEnabled(settings), 0)
  /\ deleted' = Issue(IF deleted.recorded
                      THEN [deleted EXCEPT !.ids = deleted.ids \cup {id}]
                      ELSE deleted,
                      NextSlot, RemoteEnabled(settings),
                      SeqFilterOut(appointments, id))
  /\ UNCHANGED <<deployment, settings, isLoading, now, remoteFile, serverVars,
                 lastRead>>
  /\ io' = Observe(Started("delete", id, RemoteEnabled(settings)))

\* variant: the webhook URL is not looked at
MissingDataApptOnly(appts, id, url) == FindIndex(appts, id) = 0
\* !appt || !settings.n8n_webhook_url
MissingData(appts, id, url) == FindIndex(appts, id) = 0 \/ url = ""

\* handleTrigger(id) up to its await fetch(webhook), from the send button of a
\* listed pending record whose id is not in triggeringIds (disabled otherwise)
HandleTrigger(id) ==
  /\ UiReady
  /\ PendingIn(appointments, id)
  /\ id \notin triggeringIds
  /\ IF MissingData(appointments, id, settings.n8n_webhook_url)
     THEN UNCHANGED <<tasks, triggeringIds>>
     ELSE /\ \E t \in Slots :
               /\ FreeSlot(t)
               /\ tasks' = [tasks EXCEPT ![t] =
                    [pc |-> "webhook", op |-> "trigger", id |-> id,
                     appts |-> appointments, remote |-> RemoteEnabled(settings),
                     data |-> << >>, sha |-> Absent, calls |-> 1, puts |-> 0]]
          /\ triggeringIds' = triggeringIds \cup {id}
  /\ UNCHANGED <<deployment, appointments, settings, isLoading, isSaving, now,
                 localStorage, remoteFile, serverVars, lastRead, deleted>>
  /\ io' = Observe(
       IF MissingData(appointments, id, settings.n8n_webhook_url)
       THEN [NoIo EXCEPT !.op = "trigger", !.id = id,
                         !.kind = "Missing appointment data or n8n Webhook URL"]
       ELSE [NoIo EXCEPT !.op = "trigger", !.id = id, !.calls = 1])

\* handleTrigger after the webhook answered with an HTTP status
WebhookRespond(t, status) ==
  /\ Static
  /\ tasks[t].pc = "webhook"
  /\ IF ResOk(status)
     THEN /\ PersistData(t, "trigger", tasks[t].id,
                         MarkSent(tasks[t].appts, tasks[t].id), tasks[t].remote,
                         tasks[t].calls)
          /\ UNCHANGED <<settings, isLoading, now, remoteFile>>
     ELSE /\ triggeringIds' = triggeringIds \ {tasks[t].id}
          /\ tasks' = [tasks EXCEPT ![t] = IdleTask]
          /\ UNCHANGED <<appointments, settings, isLoading, isSaving,
                         now, localStorage, remoteFile>>
  /\ deleted' = IF ResOk(status)
                THEN Issue(deleted, t, tasks[t].remote,
                           MarkSent(tasks[t].appts, tasks[t].id))
                ELSE deleted
  /\ UNCHANGED <<deployment, serverVars, lastRead>>
  /\ io' = Observe(
       [NoIo EXCEPT !.op = "trigger", !.id = tasks[t].id, !.answer = "status",
                    !.status = status, !.calls = tasks[t].calls,
                    !.kind = IF ~ResOk(status) THEN "n8n error"
                             ELSE IF tasks[t].remote THEN "none" ELSE "ok",
                    !.code = IF ResOk(status) THEN 0 ELSE status])

\* variant: the catch path leaves the id in triggeringIds
WebhookFailKeepsId(t) ==
  /\ Static
  /\ tasks[t].pc = "webhook"
  /\ tasks' = [tasks EXCEPT ![t] = IdleTask]
  /\ UNCHANGED <<deployment, appointments, settings, isLoading, isSaving,
                 triggeringIds, now, localStorage, remoteFile, serverVars,
                 lastRead, deleted>>
  /\ io' = Observe(
       [NoIo EXCEPT !.op = "trigger", !.id = tasks[t].id, !.answer = "fail",
                    !.kind = "Network error", !.log = "Error triggering",
                    !.calls = tasks[t].calls])

\* variant: when fetch rejects, the POST is sent once more
WebhookFailRetry(t) ==
  /\ Static
  /\ tasks[t].pc = "webhook"
  /\ tasks[t].calls < 2
  /\ tasks' = [tasks EXCEPT ![t].calls = tasks[t].calls + 1]
  /\ UNCHANGED <<deployment, appointments, settings, isLoading, isSaving,
                 triggeringIds, now, localStorage, remoteFile, serverVars,
                 lastRead, deleted>>
  /\ io' = Observe([NoIo EXCEPT !.op = "trigger", !.id = tasks[t].id,
                                !.answer = "fail", !.calls = tasks[t].calls + 1])

\* handleTrigger when fetch rejects (DNS, refused connection, TLS, CORS)
WebhookFail(t) ==
  /\ Static
  /\ tasks[t].pc = "webhook"
  /\ triggeringIds' = triggeringIds \ {tasks[t].id}
  /\ tasks' = [tasks EXCEPT ![t] = IdleTask]
  /\ UNCHANGED <<deployment, appointments, settings, isLoading, isSaving,
                 now, localStorage, remoteFile, serverVars, lastRead, deleted>>
  /\ io' = Observe(
       [NoIo EXCEPT !.op = "trigger", !.id = tasks[t].id, !.answer = "fail",
                    !.kind = "Network error", !.log = "Error triggering",
                    !.calls = tasks[t].calls])

\* ------------------------------------------------------------- settings
\* the onChange handler of the webhook URL input
EditWebhookUrl(u) ==
  /\ UiReady
  /\ settings.n8n_webhook_url # u
  /\ settings' = [settings EXCEPT !.n8n_webhook_url = u]
  /\ UNCHANGED <<deployment, appointments, isLoading, isSaving, triggeringIds,
                 tasks, now, localStorage, remoteFile, serverVars, lastRead, deleted>>
  /\ io' = NoIo

\* the onChange handler of the "Enable GitHub Sync" checkbox
SetUseGithub(on) ==
  /\ UiReady
  /\ settings.use_github # on
  /\ settings' = [settings EXCEPT !.use_github = on]
  /\ UNCHANGED <<deployment, appointments, isLoading, isSaving, triggeringIds,
                 tasks, now, localStorage, remoteFile, serverVars, lastRead, deleted>>
  /\ io' = NoIo

\* the onChange handler of the token input, shown while use_github is set
EditGithubToken(v) ==
  /\ UiReady
  /\ settings.use_github
  /\ settings.github_token # v
  /\ settings' = [settings EXCEPT !.github_token = v]
  /\ UNCHANGED <<deployment, appointments, isLoading, isSaving, triggeringIds,
                 tasks, now, localStorage, remoteFile, serverVars, lastRead, deleted>>
  /\ io' = NoIo

\* the onChange handler of the repository input, shown while use_github is set
EditGithubRepo(v) ==
  /\ UiReady
  /\ settings.use_github
  /\ settings.github_repo # v
  /\ settings' = [settings EXCEPT !.github_repo = v]
  /\ UNCHANGED <<deployment, appointments, isLoading, isSaving, triggeringIds,
                 tasks, now, localStorage, remoteFile, serverVars, lastRead, deleted>>
  /\ io' = NoIo

\* gh.loadData(defaultValue) once getFile has answered ("ok": 200 or 404) or
\* failed ("error"): every failure is caught inside and yields defaultValue
LoadData(file, answer, defaultValue) ==
  IF GetFile(file, answer).kind = "file"
  THEN ParseAppts(Atob(GetFile(file, answer).file.text))
  ELSE defaultValue

\* what loadData logs: the error it caught, if getFile threw
LoadLog(file, answer) ==
  IF GetFile(file, answer).kind = "throw" THEN "Error loading from GitHub"
  ELSE "none"

\* saveSettings: local save of the settings, then loadInitialData(settings) up
\* to its await (remote) or its end (local)
SaveSettings ==
  /\ UiReady
  /\ localStorage' = LocalSaveSettings(localStorage, settings)
  /\ IF RemoteEnabled(settings)
     THEN /\ \E t \in Slots :
               /\ FreeSlot(t)
               /\ tasks' = [tasks EXCEPT ![t] =
                              [IdleTask EXCEPT !.pc = "loadGet", !.op = "load"]]
          /\ isLoading' = TRUE
          /\ UNCHANGED appointments
     ELSE /\ appointments' = LocalLoadAppts(localStorage)
          /\ isLoading' = FALSE
          /\ UNCHANGED tasks
  /\ UNCHANGED <<deployment, settings, isSaving, triggeringIds, now,
                 remoteFile, serverVars, lastRead, deleted>>
  /\ io' = Observe(Started("load", 0, RemoteEnabled(settings)))

\* loadInitialData after gh.loadData returned
LoadRespond(t, answer) ==
  /\ Static
  /\ tasks[t].pc = "loadGet"
  /\ appointments' = LoadData(remoteFile, answer, << >>)
  /\ isLoading' = FALSE
  /\ tasks' = [tasks EXCEPT ![t] = IdleTask]
  /\ lastRead' = IF answer = "ok" THEN "current" ELSE lastRead
  /\ UNCHANGED <<deleted, deployment, settings, isSaving, triggeringIds, now,
                 localStorage, remoteFile, serverVars>>
  /\ io' = Observe(
       [NoIo EXCEPT !.op = "load", !.answer = answer, !.kind = "ok",
                    !.log = LoadLog(remoteFile, answer)])

\* ----------------------------------------------------------------- server
Server == deployment = "server"

FreeRequest(r) ==
  /\ requests[r].pc = "idle"
  /\ \A u \in Slots : u < r => requests[u].pc # "idle"

\* UPDATE appointments SET status = 'sent' WHERE id = ?
UpdateSent(rows, id) == SeqMap(rows, id, "sent")

\* POST /api/appointments: INSERT with the next AUTOINCREMENT id, status
\* DEFAULT 'pending'
PostAppointment(f) ==
  /\ Server
  /\ dbSeq < MaxAppts
  /\ db' = Append(db, NewAppointment(f, dbSeq + 1))
  /\ dbSeq' = dbSeq + 1
  /\ UNCHANGED <<deployment, appVars, dbUrl, requests, lastRead, deleted>>
  /\ io' = Observe([NoIo EXCEPT !.op = "add", !.id = dbSeq + 1, !.kind = "id",
                                !.http = 200])

\* DELETE /api/appointments/:id
DeleteAppointment(id) ==
  /\ Server
  /\ db' = SeqFilterOut(db, id)
  /\ UNCHANGED <<deployment, appVars, dbSeq, dbUrl, requests, lastRead, deleted>>
  /\ io' = Observe([NoIo EXCEPT !.op = "delete", !.id = id, !.kind = "success",
                                !.http = 200])

\* the settings table without a row for the key / with the row
NoRow == [present |-> FALSE, text |-> ""]
Row(value) == [present |-> TRUE, text |-> value]

\* POST /api/settings: INSERT OR REPLACE of key n8n_webhook_url
PostSettings(u) ==
  /\ Server
  /\ dbUrl # Row(u)
  /\ dbUrl' = Row(u)
  /\ UNCHANGED <<deployment, appVars, db, dbSeq, requests, lastRead, deleted>>
  /\ io' = NoIo

\* the reply of /api/trigger-reminder/:id before any request is made, if any:
\* 404 without the row, 400 without a webhook URL
EarlyReply(rows, id, url) ==
  IF ~HasId(rows, id)
  THEN [http |-> 404, kind |-> "Appointment not found"]
  ELSE IF ~url.present \/ url.text = ""
  THEN [http |-> 400, kind |-> "n8n Webhook URL not configured in settings"]
  ELSE [http |-> 0, kind |-> "none"]

\* POST /api/trigger-reminder/:id up to its await fetch(webhook)
TriggerReminder(id) ==
  /\ Server
  /\ IF EarlyReply(db, id, dbUrl).http # 0
     THEN UNCHANGED requests
     ELSE \E r \in Slots :
            /\ FreeRequest(r)
            /\ requests' = [requests EXCEPT ![r] =
                 [IdleTask EXCEPT !.pc = "fetch", !.op = "trigger",
                                  !.id = id, !.calls = 1]]
  /\ UNCHANGED <<deployment, appVars, db, dbSeq, dbUrl, lastRead, deleted>>
  /\ io' = Observe(
       [NoIo EXCEPT !.op = "trigger", !.id = id,
                    !.http = EarlyReply(db, id, dbUrl).http,
                    !.kind = EarlyReply(db, id, dbUrl).kind,
                    !.calls = IF EarlyReply(db, id, dbUrl).http # 0 THEN 0 ELSE 1])

\* the route after the webhook answered with an HTTP status (clearTimeout)
ServerWebhookRespond(r, status) ==
  /\ Server
  /\ requests[r].pc = "fetch"
  /\ db' = IF ResOk(status) THEN UpdateSent(db, requests[r].id) ELSE db
  /\ requests' = [requests EXCEPT ![r] = IdleTask]
  /\ UNCHANGED <<deployment, appVars, dbSeq, dbUrl, lastRead, deleted>>
  /\ io' = Observe(
       [NoIo EXCEPT !.op = "trigger", !.id = requests[r].id,
                    !.answer = "status", !.status = status,
                    !.calls = requests[r].calls,
                    !.kind = IF ResOk(status) THEN "success"
                             ELSE "n8n returned an error",
                    !.code = IF ResOk(status) THEN 0 ELSE status,
                    !.http = IF ResOk(status) THEN 200 ELSE 502])

\* the route when fetch rejects for another reason than the abort
ServerWebhookFail(r) ==
  /\ Server
  /\ requests[r].pc = "fetch"
  /\ requests' = [requests EXCEPT ![r] = IdleTask]
  /\ UNCHANGED <<deployment, appVars, db, dbSeq, dbUrl, lastRead, deleted>>
  /\ io' = Observe(
       [NoIo EXCEPT !.op = "trigger", !.id = requests[r].id,
                    !.answer = "fail", !.kind = "Failed to connect to n8n",
                    !.http = 500, !.log = "Trigger error",
                    !.calls = requests[r].calls])

\* history: the webhook call of a trigger for id was aborted and may still be
\* answered by the webhook
Abandon(h, id) ==
  IF h.calls THEN [h EXCEPT !.abandoned = h.abandoned \cup {id}] ELSE h

\* variant: the timer answers 504 but does not abort the call, and the route
\* goes on waiting for the webhook
ServerTimeoutKeepsWaiting(r) ==
  /\ Server
  /\ requests[r].pc = "fetch"
  /\ requests[r].calls = 1
  /\ requests' = [requests EXCEPT ![r].calls = 2]
  /\ deleted' = Abandon(deleted, requests[r].id)
  /\ UNCHANGED <<deployment, appVars, db, dbSeq, dbUrl, lastRead>>
  /\ io' = Observe(
       [NoIo EXCEPT !.op = "trigger", !.id = requests[r].id,
                    !.answer = "timeout", !.kind = "Request to n8n timed out",
                    !.http = 504, !.log = "Trigger error",
                    !.calls = 1])

\* variant: the catch block does not tell an AbortError from other errors
ServerTimeoutAsFailure(r) ==
  /\ Server
  /\ requests[r].pc = "fetch"
  /\ requests' = [requests EXCEPT ![r] = IdleTask]
  /\ deleted' = Abandon(deleted, requests[r].id)
  /\ UNCHANGED <<deployment, appVars, db, dbSeq, dbUrl, lastRead>>
  /\ io' = Observe(
       [NoIo EXCEPT !.op = "trigger", !.id = requests[r].id,
                    !.answer = "timeout", !.kind = "Failed to connect to n8n",
                    !.http = 500, !.log = "Trigger error",
                    !.calls = requests[r].calls])

\* the 15 s timer fires before the webhook answered: controller.abort(), the
\* fetch rejects with an AbortError
ServerTimeout(r) ==
  /\ Server
  /\ requests[r].pc = "fetch"
  /\ requests' = [requests EXCEPT ![r] = IdleTask]
  /\ deleted' = Abandon(deleted, requests[r].id)
  /\ UNCHANGED <<deployment, appVars, db, dbSeq, dbUrl, lastRead>>
  /\ io' = Observe(
       [NoIo EXCEPT !.op = "trigger", !.id = requests[r].id,
                    !.answer = "timeout", !.kind = "Request to n8n timed out",
                    !.http = 504, !.log = "Trigger error",
                    !.calls = requests[r].calls])

\* the webhook answers a call that was aborted: the fetch has already
\* rejected, no code of the route is waiting for the response
LateResponse(id, status) ==
  /\ Server
  /\ id \in deleted.abandoned
  /\ deleted' = [deleted EXCEPT !.abandoned = deleted.abandoned \ {id}]
  /\ UNCHANGED <<deployment, appVars, serverVars, lastRead>>
  /\ io' = Observe([NoIo EXCEPT !.op = "late", !.id = id, !.answer = "status",
                                !.status = status])

\* ---------------------------------------------------------- specifications
AppInit ==
  /\ appointments = << >>
  /\ isSaving = FALSE
  /\ triggeringIds = {}
  /\ now = 1
  /\ remoteFile = Absent
  /\ io = NoIo
  /\ lastRead = "none"

ServerInit ==
  /\ db = << >>
  /\ dbSeq = 0
  /\ dbUrl = NoRow
  /\ requests = [r \in Slots |-> IdleTask]

\* a first session: localStorage is empty, the mount effect has loaded the
\* default settings and the (empty) local record set
FirstSession ==
  /\ deployment \in Deployments
  /\ AppInit
  /\ ServerInit
  /\ settings = DEFAULT_SETTINGS
  /\ isLoading = FALSE
  /\ tasks = [t \in Slots |-> IdleTask]
  /\ localStorage = [remindly_appointments |-> Absent, remindly_settings |-> Absent]

NoHistory ==
  [recorded |-> FALSE, ids |-> {}, calls |-> FALSE, abandoned |-> {},
   writes |-> FALSE, latest |-> 0, data |-> << >>, done |-> "none"]

Init ==
  /\ FirstSession
  /\ deleted = NoHistory

\* the same, with the history of deletions recorded
HistInit ==
  /\ FirstSession
  /\ deleted = [NoHistory EXCEPT !.recorded = TRUE]

RemoteSettings ==
  [n8n_webhook_url |-> WebhookUrl, use_github |-> TRUE,
   github_token |-> Token, github_repo |-> Repo]

\* a session whose saved settings enable the remote store: the mount effect
\* has loaded them and loadInitialData awaits gh.loadData
SyncSession ==
  /\ deployment = "static"
  /\ AppInit
  /\ ServerInit
  /\ settings = RemoteSettings
  /\ isLoading = TRUE
  /\ tasks = [t \in Slots |-> IF t = 1
                THEN [IdleTask EXCEPT !.pc = "loadGet", !.op = "load"]
                ELSE IdleTask]
  /\ localStorage = [remindly_appointments |-> Absent,
                     remindly_settings |-> Stored(StringifySettings(RemoteSettings))]

SyncInit ==
  /\ SyncSession
  /\ deleted = NoHistory

\* the same, with the write issued last and its outcome recorded
WriteInit ==
  /\ SyncSession
  /\ deleted = [NoHistory EXCEPT !.writes = TRUE]

AppNext ==
  \/ Tick
  \/ \E f \in FormInputs : HandleAddAppointment(f)
  \/ \E id \in Ids : HandleDelete(id)
  \/ \E id \in Ids : HandleTrigger(id)
  \/ \E t \in Slots, status \in WebhookStatuses : WebhookRespond(t, status)
  \/ \E t \in Slots : WebhookFail(t)

RemoteNext ==
  \/ OtherWrite
  \/ \E t \in Slots, a \in {"ok", "error"} : GetFileRespond(t, a)
  \/ \E t \in Slots, a \in {"ok", "error"} : PutRespond(t, a)
  \/ \E t \in Slots, a \in {"ok", "error"} : LoadRespond(t, a)

ServerNext ==
  \/ \E f \in FormInputs : PostAppointment(f)
  \/ \E id \in Ids : DeleteAppointment(id)
  \/ \E u \in {"", WebhookUrl} : PostSettings(u)
  \/ \E id \in Ids : TriggerReminder(id)
  \/ \E r \in Slots, status \in WebhookStatuses : ServerWebhookRespond(r, status)
  \/ \E r \in Slots : ServerWebhookFail(r)
  \/ \E r \in Slots : ServerTimeout(r)

\* the server, with the aborted webhook calls recorded and answered late
AbortInit ==
  /\ FirstSession
  /\ deployment = "server"
  /\ deleted = [NoHistory EXCEPT !.calls = TRUE]

AbortNext ==
  \/ ServerNext
  \/ \E id \in Ids, status \in WebhookStatuses : LateResponse(id, status)

AbortSpec == AbortInit /\ [][AbortNext]_vars

\* the static App with the remote store disabled, or the server
Next ==
  \/ AppNext
  \/ \E u \in {"", WebhookUrl} : EditWebhookUrl(u)
  \/ ServerNext

\* the static App with the remote store enabled (no reminder is triggered)
SyncNext ==
  \/ Tick
  \/ \E f \in FormInputs : HandleAddAppointment(f)
  \/ \E id \in Ids : HandleDelete(id)
  \/ SaveSettings
  \/ RemoteNext

\* how GitHub may answer a request: "ok" (200/201, 404 on a GET of a missing
\* file, 409/422 on a PUT whose sha does not match), "unauthorized" (401, 403),
\* "error" (any other status, or the fetch rejects)
RemoteAnswers == {"ok", "unauthorized", "error"}

\* a session with the remote store enabled that no other session writes to
WriteNext ==
  \/ Tick
  \/ \E f \in FormInputs : HandleAddAppointment(f)
  \/ \E id \in Ids : HandleDelete(id)
  \/ SaveSettings
  \/ \E t \in Slots, a \in RemoteAnswers : GetFileRespond(t, a)
  \/ \E t \in Slots, a \in RemoteAnswers : PutRespond(t, a)
  \/ \E t \in Slots, a \in RemoteAnswers : LoadRespond(t, a)

WriteSpec == WriteInit /\ [][WriteNext]_vars

Spec == Init /\ [][Next]_vars

SyncSpec == SyncInit /\ [][SyncNext]_vars

\* Spec with the history of deletions
HistSpec == HistInit /\ [][Next]_vars

\* sessions that store names outside ASCII: a first session with the remote
\* store disabled, or a session whose saved settings enable it
\* a first session of the static App
LocalInit ==
  /\ Init
  /\ deployment = "static"

TextInit ==
  \/ LocalInit
  \/ SyncInit

TextNext ==
  \/ Tick
  \/ \E f \in UnicodeInputs : HandleAddAppointment(f)
  \/ \E id \in Ids : HandleDelete(id)
  \/ SaveSettings
  \/ \E t \in Slots, a \in {"ok", "error"} : GetFileRespond(t, a)
  \/ \E t \in Slots, a \in {"ok", "error"} : PutRespond(t, a)
  \/ \E t \in Slots, a \in {"ok", "error"} : LoadRespond(t, a)

TextSpec == TextInit /\ [][TextNext]_vars

\* a first session that never enables the remote store
LocalNext ==
  \/ Tick
  \/ \E f \in FormInputs \cup UnicodeInputs : HandleAddAppointment(f)
  \/ \E id \in Ids : HandleDelete(id)
  \/ SaveSettings

LocalSpec == LocalInit /\ [][LocalNext]_vars

\* the browser's storage for the page is cleared, or the item is overwritten
\* with a text that is not JSON, from outside the App
ForeignLocalWrite(item) ==
  /\ Static
  /\ localStorage.remindly_appointments # item
  /\ localStorage' = [localStorage EXCEPT !.remindly_appointments = item]
  /\ UNCHANGED <<deployment, appointments, settings, isLoading, isSaving,
                 triggeringIds, tasks, now, remoteFile, serverVars, lastRead,
                 deleted>>
  /\ io' = Observe([NoIo EXCEPT !.op = "foreign"])

\* a local-only session whose stored record set can be cleared or garbled
StoreNext ==
  \/ LocalNext
  \/ \E item \in {Absent, Stored(Garbled)} : ForeignLocalWrite(item)

StoreSpec == LocalInit /\ [][StoreNext]_vars

\* a first session in which the user enables the remote store
SwitchNext ==
  \/ Tick
  \/ \E f \in FormInputs : HandleAddAppointment(f)
  \/ \E id \in Ids : HandleDelete(id)
  \/ SetUseGithub(TRUE)
  \/ EditGithubToken(Token)
  \/ EditGithubRepo(Repo)
  \/ SaveSettings
  \/ \E t \in Slots, a \in {"ok", "error"} : GetFileRespond(t, a)
  \/ \E t \in Slots, a \in {"ok", "error"} : PutRespond(t, a)
  \/ \E t \in Slots, a \in {"ok", "error"} : LoadRespond(t, a)

SwitchSpec == LocalInit /\ [][SwitchNext]_vars

\* what GET /api/appointments returns
GetAppointments == OrderByDateTime(db)
\* what the App lists: appointments.map(...) over the state array, in its order
ListedAppointments == appointments

\* creation and deletion with every form value and request body
FormNext ==
  \/ Tick
  \/ \E f \in FormValues : HandleAddAppointment(f)
  \/ \E id \in Ids : HandleDelete(id)
  \/ \E f \in Bodies : PostAppointment(f)
  \/ \E id \in Ids : DeleteAppointment(id)

FormSpec == Init /\ [][FormNext]_vars

\* the runtime fires a pending timer: the server's abort cannot wait for ever.
\* Nothing obliges the webhook or GitHub to answer
FairSpec == Spec /\ \A r \in Slots : WF_vars(ServerTimeout(r))

\* a remote-mode session in which time passes: Date.now() goes on advancing
\* (up to the bound) whatever the App waits for.  No request of storage.ts
\* sets a timer, and nothing obliges GitHub to answer
TimedNext ==
  \/ Tick
  \/ \E f \in FormInputs : HandleAddAppointment(f)
  \/ \E id \in Ids : HandleDelete(id)
  \/ \E t \in Slots, a \in {"ok", "error"} : GetFileRespond(t, a)
  \/ \E t \in Slots, a \in {"ok", "error"} : PutRespond(t, a)
  \/ \E t \in Slots, a \in {"ok", "error"} : LoadRespond(t, a)

TimedSpec == SyncInit /\ [][TimedNext]_vars /\ WF_vars(Tick)

\* a remote-mode session in which reminders are triggered
DispatchNext ==
  \/ Tick
  \/ \E f \in FormInputs : HandleAddAppointment(f)
  \/ \E u \in {"", WebhookUrl} : EditWebhookUrl(u)
  \/ \E id \in Ids : HandleTrigger(id)
  \/ \E t \in Slots, status \in WebhookStatuses : WebhookRespond(t, status)
  \/ \E t \in Slots : WebhookFail(t)
  \/ \E t \in Slots, a \in {"ok", "error"} : GetFileRespond(t, a)
  \/ \E t \in Slots, a \in {"ok", "error"} : PutRespond(t, a)
  \/ \E t \in Slots, a \in {"ok", "error"} : LoadRespond(t, a)

\* the App, in a first session without the remote store or in a session with it
DispatchInit == LocalInit \/ SyncInit

DispatchSpec == DispatchInit /\ [][DispatchNext]_vars

\* a first session in which the user switches the remote store on and off
ToggleNext ==
  \/ \E f \in FormInputs : HandleAddAppointment(f)
  \/ EditWebhookUrl(WebhookUrl)
  \/ \E id \in Ids : HandleTrigger(id)
  \/ \E t \in Slots : WebhookRespond(t, 204)
  \/ \E on \in BOOLEAN : SetUseGithub(on)
  \/ EditGithubToken(Token)
  \/ EditGithubRepo(Repo)
  \/ SaveSettings
  \/ \E t \in Slots, a \in {"ok", "error"} : GetFileRespond(t, a)
  \/ \E t \in Slots, a \in {"ok", "error"} : PutRespond(t, a)
  \/ \E t \in Slots, a \in {"ok", "error"} : LoadRespond(t, a)

ToggleSpec == LocalInit /\ [][ToggleNext]_vars

\* ================================================================= claims
NoDupIds(s) == \A i, j \in 1..Len(s) : i # j => s[i].id # s[j].id
Persisted == LocalLoadAppts(localStorage)

\* a step in which a trigger consumed an HTTP answer of the webhook
TriggerAnswered == io.op = "trigger" /\ io.answer = "status"
\* a step in which a trigger was invoked
TriggerInvoked == io.op = "trigger" /\ io.answer = "none"

\* C1 (as claimed): status is one-way within a session.  In no step does an
\* appointment (ids being distinct) that is persisted with status sent come to
\* be held in memory or persisted with status pending.
C1_StatusOneWay ==
  [][ NoDupIds(appointments') =>
        \A i \in Ids :
          SentIn(Persisted, i) =>
            /\ ~PendingIn(appointments', i)
            /\ ~PendingIn(Persisted', i) ]_vars

\* C2: a non-2xx answer of the webhook makes the trigger fail with the
\* rejection report carrying that status code (the server replies 502), and the
\* step changes no record store: the status of the target stays as it was.
C2_NonOkRejected ==
  (TriggerAnswered /\ io.status \notin 200..299) =>
    /\ io.kind = (IF Static THEN "n8n error" ELSE "n8n returned an error")
    /\ io.code = io.status
    /\ Server => io.http = 502
    /\ ~io.changed

C2_Witness ==
  /\ Static
  /\ TriggerAnswered
  /\ io.status = 500
  /\ io.code = 500
  /\ PendingIn(appointments, io.id)
  /\ PendingIn(Persisted, io.id)

\* C3: a trigger invoked without a configured webhook URL ends at once with
\* the missing-configuration report (server: 400), one invoked for an id that
\* no record has with the not-found report (server: 404; the App has a single
\* report for both); in both cases the invocation issues no webhook call.
C3_NoCallWithoutUrlOrRecord ==
  TriggerInvoked =>
    /\ (Static /\ (settings.n8n_webhook_url = "" \/ ~HasId(appointments, io.id))) =>
          /\ io.kind = "Missing appointment data or n8n Webhook URL"
          /\ io.calls = 0
          /\ \A t \in Slots : ~(tasks[t].pc = "webhook" /\ tasks[t].id = io.id)
    /\ (Server /\ ~HasId(db, io.id)) =>
          /\ io.http = 404
          /\ io.kind = "Appointment not found"
          /\ io.calls = 0
    /\ (Server /\ HasId(db, io.id) /\ (~dbUrl.present \/ dbUrl.text = "")) =>
          /\ io.http = 400
          /\ io.kind = "n8n Webhook URL not configured in settings"
          /\ io.calls = 0
    /\ io.calls = 0 => ~io.changed

C3_Witness ==
  /\ Static
  /\ TriggerInvoked
  /\ settings.n8n_webhook_url = ""
  /\ PendingIn(appointments, io.id)
  /\ io.calls = 0

C5_TriggerEnds ==
  /\ \A r \in Slots : (requests[r].pc = "fetch") ~> (requests[r].pc # "fetch")
  /\ \A t \in Slots : (tasks[t].pc = "webhook") ~> (tasks[t].pc # "webhook")

\* C6: a trigger reports a transport error exactly when its webhook call
\* failed below HTTP, not by timeout and not by an HTTP answer; the server
\* replies 500; the step changes no record store.
C6_TransportError ==
  (io.op = "trigger" /\ io.kind # "none") =>
    /\ io.answer = "fail" <=>
         io.kind = (IF Static THEN "Network error" ELSE "Failed to connect to n8n")
    /\ io.answer = "fail" => (~io.changed /\ (Server => io.http = 500))

C6_Witness ==
  /\ Server
  /\ io.op = "trigger"
  /\ io.answer = "fail"
  /\ io.http = 500
  /\ PendingIn(db, io.id)

\* a step in which the PUT of a saveData call was answered
PutAnswered == io.op \in {"add", "delete"} /\ io.puts > 0 /\ io.answer # "none"

\* C7 (as claimed): a write issued after another session changed the remote
\* file since this session's last successful read carries the version of that
\* read, so its PUT is rejected and the step leaves the remote file as the
\* other session wrote it.
C7_WriteCarriesReadVersion ==
  (PutAnswered /\ lastRead = "stale") =>
    /\ io.answer # "ok"
    /\ ~io.changed

C9_FailedReadFallsBackToLocal ==
  (io.op = "load" /\ io.answer = "error") =>
    appointments = LocalLoadAppts(localStorage)

\* C10 (as claimed): when the remote read of loadInitialData succeeds, the
\* local store's value under remindly_appointments equals the content read.
C10_ReadRefreshesLocal ==
  (io.op = "load" /\ io.answer = "ok") =>
    LocalLoadAppts(localStorage) = LoadData(remoteFile, "ok", << >>)

\* C11: persistData stores the new record set in the local store in the step
\* that issues the first remote request of the write (getFile of saveData), so
\* the local store holds it when the request leaves; and no step in which a
\* remote request of a write is answered, whatever the answer, touches the
\* local store.
C11_LocalBeforeRemote ==
  [][ \A t \in Slots :
        /\ (tasks[t].pc # "getFile" /\ tasks'[t].pc = "getFile") =>
              LocalLoadAppts(localStorage') = tasks'[t].data
        /\ (tasks[t].pc \in {"getFile", "put"} /\ tasks'[t].pc # tasks[t].pc) =>
              localStorage' = localStorage ]_vars

C11_Witness ==
  \E t \in Slots :
    /\ tasks[t].pc = "put"
    /\ tasks[t].data # << >>
    /\ LocalLoadAppts(localStorage) = tasks[t].data
    /\ remoteFile = Absent

\* a step in which saveData failed (its getFile or its PUT) inside persistData
RemoteWriteFailed ==
  io.op \in {"add", "delete", "trigger"} /\ io.log = "Error persisting data"

\* C12: when saveData fails, persistData ends without raising: the handler
\* that called it ends as after a success (isSaving is reset), and the step
\* leaves the in-memory list, the local store and the remote file as they
\* were, so the local store keeps the record set written before the request.
C12_RemoteFailureNotRaised ==
  RemoteWriteFailed =>
    /\ io.answer \in {"error", "conflict"}
    /\ io.kind = "ok"
    /\ ~isSaving
    /\ ~io.changed

C12_Witness ==
  /\ RemoteWriteFailed
  /\ io.answer = "error"
  /\ io.kind = "ok"
  /\ appointments # << >>
  /\ LocalLoadAppts(localStorage) = appointments
  /\ remoteFile = Absent

\* a step in which a record was created (handleAddAppointment was invoked, or
\* POST /api/appointments was served)
Created == io.op = "add" /\ io.answer = "none" /\ io.kind # "none"

\* C13 (as claimed): every creation yields a record whose id no record of the
\* set had before, and the set grows by exactly one record.
C13_CreateFreshId ==
  [][ Created' =>
        IF Static
        THEN /\ ~HasId(appointments, io'.id)
             /\ Len(appointments') = Len(appointments) + 1
        ELSE /\ ~HasId(db, io'.id)
             /\ Len(db') = Len(db) + 1 ]_vars

\* C14 (as claimed): in every reachable state the records of the active set
\* (in memory and as persisted; on the server, the rows) have pairwise
\* distinct ids, and the next id to assign lies above every id in the set.
C14_IdsUnique ==
  /\ Static =>
       /\ NoDupIds(appointments)
       /\ NoDupIds(Persisted)
       /\ \A i \in 1..Len(appointments) : appointments[i].id <= now
  /\ Server =>
       /\ NoDupIds(db)
       /\ \A i \in 1..Len(db) : db[i].id <= dbSeq

\* C15 (as claimed): a remove for an id that no record has is answered with
\* an error (not found), never with the report of a success.
C15_RemoveUnknownFails ==
  [][ (io'.op = "delete" /\ io'.answer = "none" /\
       ~HasId(IF Static THEN appointments ELSE db, io'.id)) =>
        /\ io'.kind \notin {"ok", "success", "none"}
        /\ Server => io'.http = 404 ]_vars

\* a step in which a delete, or the sent transition of a trigger answered 2xx,
\* was applied for an id the record set does not hold
AbsentIdStep(set) ==
  /\ \/ io'.op = "delete" /\ io'.answer = "none"
     \/ io'.op = "trigger" /\ io'.answer = "status" /\ ResOk(io'.status)
  /\ ~HasId(set, io'.id)

\* C16 (as claimed): a remove or a sent transition for an id that is not in
\* the record set leaves the set unchanged, in memory and as persisted, also
\* when the id was removed while the trigger's webhook call was in flight.
C16_AbsentIdFrame ==
  [][ /\ (Static /\ AbsentIdStep(appointments)) =>
            /\ appointments' = appointments
            /\ Persisted' = Persisted
      /\ (Server /\ AbsentIdStep(db)) => db' = db ]_vars

\* C17 (as claimed): once handleDelete(id) has persisted its snapshot, no
\* snapshot the session persists later holds a record with that id (unless a
\* later create made a new record with it).
C17_DeletionPermanent ==
  \A i \in deleted.ids : ~HasId(Persisted, i)

\* the record sets the map of handleTrigger is applied to: the list in memory
\* and the snapshot in the closure of each suspended handleTrigger
MarkSentInputs ==
  {appointments} \cup {tasks[t].appts : t \in Slots}

\* the ids of a record set, and one id it does not hold
IdsOf(set) == {set[k].id : k \in 1..Len(set)} \cup {OtherId}

\* C18: the sent transition is idempotent.  For every record set it is applied
\* to and every id, applying it twice gives the record set that applying it
\* once gives (same records, same order, same fields), for the map of
\* handleTrigger and for the server's UPDATE on its table.
C18_MarkSentIdempotent ==
  /\ \A set \in MarkSentInputs : \A i \in IdsOf(set) :
       MarkSent(MarkSent(set, i), i) = MarkSent(set, i)
  /\ \A i \in IdsOf(db) :
       UpdateSent(UpdateSent(db, i), i) = UpdateSent(db, i)

\* a trigger is answered 2xx for a row that was marked before: the UPDATE is
\* applied a second time and the table stays as it was
C18_Witness ==
  /\ Server
  /\ TriggerAnswered
  /\ ResOk(io.status)
  /\ SentIn(db, io.id)
  /\ ~io.changed

\* a default no record set written by the session equals
OtherDefault == << OtherAppt >>

\* C19: a record set saved by LocalStorageService.save and read back by
\* LocalStorageService.load is the set that was saved, field for field, the
\* empty set included (the default is not returned in its place); and in a
\* session without the remote store what the local store reads back is the
\* list in memory.
C19_LocalRoundTrip ==
  /\ \A set \in {appointments} \cup {tasks[t].data : t \in Slots} :
       LocalLoad(LocalSaveAppts(localStorage, set).remindly_appointments,
                 OtherDefault) = set
  /\ ~RemoteEnabled(settings) => LocalLoadAppts(localStorage) = appointments

\* saveSettings has reloaded the record set from a local store that holds a
\* saved empty set
C19_Witness ==
  /\ io.op = "load"
  /\ ~RemoteEnabled(settings)
  /\ localStorage.remindly_appointments.present
  /\ LocalLoad(localStorage.remindly_appointments, OtherDefault) = << >>
  /\ appointments = << >>

\* C20 (as claimed): every record set handed to saveData, names outside
\* Latin-1 included, is encoded without failure, and decoding the encoded text
\* as loadData does gives back the record set.
C20_RemoteRoundTrip ==
  \A t \in Slots :
    tasks[t].pc \in {"getFile", "put"} =>
      /\ Btoa(StringifyAppts(tasks[t].data)).ok
      /\ LoadData(Stored(Btoa(StringifyAppts(tasks[t].data)).b64), "ok",
                  OtherDefault) = tasks[t].data

\* ascending order of (appointment_date, appointment_time)
Ascending(list) ==
  \A i, j \in 1..Len(list) : i < j => NotAfter(list[i], list[j])

\* C21 (as claimed): whenever the record set is listed, by the server or by
\* the App, the records are in ascending order of (appointment_date,
\* appointment_time) as plain strings.
C21_ListedAscending ==
  /\ Server => Ascending(GetAppointments)
  /\ Static => Ascending(ListedAppointments)

\* C22 (as claimed): a creation whose client_name or phone_number is empty is
\* rejected, so no record of the set, in memory, persisted or in the table,
\* ever has an empty client_name or phone_number.
C22_NoEmptyFields ==
  \A list \in {appointments, Persisted, db} :
    \A i \in 1..Len(list) :
      list[i].client_name # "" /\ list[i].phone_number # ""

\* C23: a step that creates a record appends one record whose status is
\* 'pending' and whose id is the one the program assigns in that step (the
\* clock reading in the App, the next rowid on the server, which no row has
\* and which is above every id assigned before), whatever the caller sent.
C23_CreatedPendingAssigned ==
  [][ Created' =>
        IF Static
        THEN /\ Len(appointments') = Len(appointments) + 1
             /\ appointments'[Len(appointments')].status = "pending"
             /\ appointments'[Len(appointments')].id = now
             /\ DOMAIN appointments'[Len(appointments')] = DOMAIN OtherAppt
        ELSE /\ Len(db') = Len(db) + 1
             /\ db'[Len(db')].status = "pending"
             /\ db'[Len(db')].id = dbSeq + 1
             /\ db'[Len(db')].id > dbSeq
             /\ ~HasId(db, db'[Len(db')].id)
             /\ DOMAIN db'[Len(db')] = DOMAIN OtherAppt ]_vars

\* a request body that carried its own id and status was stored as a pending
\* row under a rowid
C23_Witness ==
  /\ Created
  /\ Server
  /\ db # << >>
  /\ db[Len(db)].client_name = OverBody.client_name
  /\ db[Len(db)].status = "pending"
  /\ db[Len(db)].id # OverBody.id

\* C24: LocalStorageService.load returns the default it was given when the
\* item is missing or its text is not valid JSON; and a load of the record set
\* (loadInitialData with the remote store disabled) ends normally with the
\* empty default in memory in those two cases, leaving the stored item as it
\* was.
C24_LoadNeverFails ==
  [][ /\ \A d \in {<< >>, OtherDefault} :
           /\ LocalLoad(Absent, d) = d
           /\ LocalLoad(Stored(Garbled), d) = d
      /\ (io'.op = "load" /\ ~RemoteEnabled(settings)) =>
           /\ io'.kind = "ok"
           /\ localStorage'.remindly_appointments = localStorage.remindly_appointments
           /\ (\/ ~localStorage.remindly_appointments.present
               \/ ~JsonParses(localStorage.remindly_appointments.text))
                => appointments' = << >> ]_vars

\* the record set was reloaded from a store whose item is not valid JSON,
\* after a record had been in memory
C24_Witness ==
  /\ io.op = "load"
  /\ localStorage.remindly_appointments = Stored(Garbled)
  /\ appointments = << >>
  /\ now > 1

\* the requests of a trigger for id that wait for the webhook
Waiting(reqs, id) == {r \in Slots : reqs[r].pc = "fetch" /\ reqs[r].id = id}

\* C25: when the timer of a trigger fires, the route answers 504 "Request to
\* n8n timed out", marks nothing and stops waiting; a response of the aborted
\* call that arrives later changes no row and no request; and a row becomes
\* 'sent' only in the step in which a request still waiting for the webhook
\* receives a 2xx answer for that row.
C25_LateResponseIgnored ==
  [][ /\ (io'.op = "trigger" /\ io'.answer = "timeout") =>
           /\ io'.http = 504
           /\ io'.kind = "Request to n8n timed out"
           /\ db' = db
           /\ Cardinality(Waiting(requests', io'.id)) <
                Cardinality(Waiting(requests, io'.id))
      /\ io'.op = "late" =>
           /\ db' = db
           /\ requests' = requests
           /\ io'.http = 0
      /\ \A id \in Ids :
           (~SentIn(db, id) /\ SentIn(db', id)) =>
             /\ TriggerAnswered'
             /\ ResOk(io'.status)
             /\ io'.id = id
             /\ \E r \in Waiting(requests, id) : requests'[r].pc = "idle" ]_vars

\* a 2xx response arrived for a call whose trigger had timed out, and the row
\* is still pending
C25_Witness ==
  /\ io.op = "late"
  /\ ResOk(io.status)
  /\ HasId(db, io.id)
  /\ PendingIn(db, io.id)
  /\ \A r \in Slots : requests[r].pc = "idle"

\* C26 (as claimed): when a trigger completes successfully and persists its
\* snapshot, every record that was in memory just before, the records created
\* while its webhook call was in flight included, is still in memory and in
\* the persisted set.
C26_CreatedDuringTriggerKept ==
  [][ (Static /\ TriggerAnswered' /\ ResOk(io'.status)) =>
        \A i \in Ids :
          HasId(appointments, i) =>
            /\ HasId(appointments', i)
            /\ HasId(Persisted', i) ]_vars

\* C27 (as claimed): once the write issued last has completed without error
\* and no saveData is in flight any more, the remote file holds the record set
\* of that write, also when an earlier write that overlapped it completed
\* without error after it.
C27_LaterWriteWins ==
  (/\ deleted.writes
   /\ deleted.done = "ok"
   /\ \A t \in Slots : tasks[t].pc \notin {"getFile", "put"}) =>
     remoteFile = Stored(Btoa(StringifyAppts(deleted.data)).b64)

\* C28 (as claimed): when the load that saveSettings starts in remote mode
\* finds no remote file, or its read fails, every appointment of the local
\* store is in the record set in memory afterwards.
C28_LocalKeptOnSwitch ==
  [][ (/\ Static
       /\ io'.op = "load"
       /\ io'.answer \in {"ok", "error"}
       /\ (io'.answer = "error" \/ ~remoteFile.present)) =>
        \A i \in Ids : HasId(Persisted, i) => HasId(appointments', i) ]_vars

\* C29: a 404 on the GET is not an error.  A load that finds no remote file
\* ends with the default (the empty set) in memory and logs nothing; a
\* saveData that finds no remote file goes on to its PUT, which carries no sha
\* and creates the file; and no write ends with an error on a 200 or 404
\* answer of its GET.
C29_MissingFileIsEmpty ==
  [][ /\ (io'.op = "load" /\ io'.answer = "ok" /\ ~remoteFile.present) =>
           /\ appointments' = << >>
           /\ io'.log = "none"
      /\ GetFile(Absent, "ok").kind = "null"
      /\ \A t \in Slots :
           /\ (tasks[t].pc = "getFile" /\ tasks'[t].pc = "put"
               /\ ~remoteFile.present) => tasks'[t].sha = Absent
           /\ (tasks[t].pc = "put" /\ tasks[t].sha = Absent
               /\ ~remoteFile.present /\ tasks'[t].pc = "idle"
               /\ io'.answer = "ok") =>
                remoteFile' = Stored(Btoa(StringifyAppts(tasks[t].data)).b64)
      /\ (io'.op \in {"add", "delete"} /\ io'.answer = "ok") =>
           io'.log = "none" ]_vars

\* a saveData that found no remote file has issued its PUT without a sha
C29_Witness ==
  \E t \in Slots :
    /\ tasks[t].pc = "put"
    /\ tasks[t].sha = Absent
    /\ ~remoteFile.present
    /\ tasks[t].data # << >>

\* C30 (as claimed): a load or write whose remote request failed reports the
\* class of the failure: Unauthorized for a rejected credential, Conflict for
\* a version mismatch on write, RemoteUnavailable for every other failure.
C30_FailuresClassified ==
  (/\ Static
   /\ io.op \in {"load", "add", "delete"}
   /\ io.answer \in {"unauthorized", "conflict", "error"}) =>
     LET class == CASE io.answer = "unauthorized" -> "Unauthorized"
                    [] io.answer = "conflict" -> "Conflict"
                    [] OTHER -> "RemoteUnavailable"
     IN  io.kind = class \/ io.log = class

\* C31 (as claimed): every remote operation ends: a loadInitialData that has
\* set isLoading and a persistData that has set isSaving eventually reset it,
\* also when GitHub never answers.
C31_RemoteOperationsEnd ==
  /\ isLoading ~> ~isLoading
  /\ isSaving ~> ~isSaving

\* C32: a persistData call issues at most one PUT.  No handler has ever
\* issued more than one, and the step in which its PUT is answered, accepted,
\* rejected or failed, ends the handler: it issues no further request.
C32_SinglePut ==
  [][ /\ io'.puts <= 1
      /\ \A t \in Slots :
           /\ tasks'[t].puts <= 1
           /\ (tasks[t].pc = "put" /\ tasks'[t] # tasks[t]) =>
                /\ tasks'[t].pc = "idle"
                /\ io'.puts = 1
                /\ io'.answer # "none" ]_vars

\* a write ended after its one PUT was answered 401
C32_Witness ==
  /\ PutAnswered
  /\ io.answer = "unauthorized"
  /\ io.puts = 1
  /\ io.log = "Error persisting data"
  /\ \A t \in Slots : tasks[t].pc = "idle"

\* C33: a trigger invocation issues at most one webhook POST.  No handler of
\* the App and no request of the server has ever issued more than one, and the
\* step in which the call ends, by a 2xx or non-2xx answer, by the timeout or
\* by a transport failure, is the end of the dispatch: the handler does not go
\* back to awaiting the webhook.
C33_SinglePost ==
  [][ /\ io'.calls <= 1
      /\ \A t \in Slots :
           /\ tasks'[t].calls <= 1
           /\ requests'[t].calls <= 1
           /\ (tasks[t].pc = "webhook" /\ tasks'[t] # tasks[t]) =>
                /\ tasks'[t].pc # "webhook"
                /\ io'.op = "trigger" /\ io'.answer \in {"status", "fail"}
                /\ io'.calls = 1
           /\ (requests[t].pc = "fetch" /\ requests'[t] # requests[t]) =>
                /\ requests'[t].pc = "idle"
                /\ io'.op = "trigger"
                /\ io'.answer \in {"status", "fail", "timeout"}
                /\ io'.calls = 1 ]_vars

\* a dispatch of the App ended by a transport failure after its one POST
C33_Witness ==
  /\ Static
  /\ io.op = "trigger"
  /\ io.answer = "fail"
  /\ io.calls = 1
  /\ io.id \notin triggeringIds
  /\ \A t \in Slots : tasks[t].pc # "webhook"

\* the slots whose handleTrigger for id has started and not yet ended
Dispatching(id) ==
  {t \in Slots : tasks[t].op = "trigger" /\ tasks[t].pc # "idle" /\ tasks[t].id = id}

\* C34: in the App, an id is in triggeringIds exactly while a handleTrigger
\* for it has started and not ended (its webhook call, and after a 2xx answer
\* its persistData, are in flight), whatever way the handler ends; and at most
\* one handleTrigger per id is in flight at any time.
C34_TriggeringIdsInFlight ==
  Static =>
    \A id \in Ids :
      /\ id \in triggeringIds <=> Dispatching(id) # {}
      /\ Cardinality(Dispatching(id)) <= 1

\* the webhook call of a dispatch failed while a second record with the send
\* button is listed: the id has left triggeringIds and the other trigger is
\* still in flight
C34_Witness ==
  /\ Static
  /\ io.op = "trigger"
  /\ io.answer = "fail"
  /\ io.id \notin triggeringIds
  /\ triggeringIds # {}

\* C35 (as claimed): with the remote store disabled, whenever no write is in
\* flight and a mutation has completed (the local store holds a saved record
\* set), the record set stored under remindly_appointments is the list in
\* memory, record for record and in the same order.
C35_LocalHoldsWholeSet ==
  (/\ Static
   /\ ~RemoteEnabled(settings)
   /\ ~isLoading
   /\ \A t \in Slots : tasks[t].pc = "idle"
   /\ localStorage.remindly_appointments.present) =>
     LocalLoadAppts(localStorage) = appointments

\* C36 (as claimed): while the settings disable the remote store (use_github
\* unset, or token or repo empty) no loadInitialData and no persistData call
\* issues a remote request (no handler starts the GET of a load or of a
\* write), and a load puts the locally stored record set in memory.
C36_LocalOnlyWhenDisabled ==
  [][ (Static /\ ~RemoteEnabled(settings)) =>
        /\ \A t \in Slots :
             tasks'[t].pc \in {"getFile", "loadGet"} => tasks'[t].pc = tasks[t].pc
        /\ (io'.op = "load" /\ io'.answer = "none") =>
             appointments' = LocalLoadAppts(localStorage) ]_vars

====
